---- MODULE Spec2Model ----
(***************************************************************************)
(* A model of omnifocus2md.py: the folder path resolver, the attachment    *)
(* resolver, the markdown renderer and the file materializer with its      *)
(* empty-folder post-pass.                                                 *)
(*                                                                         *)
(* Text is modelled as sequences of one-character strings, so that         *)
(* sanitizing, lower-casing, joining and splitting are computed character  *)
(* by character as the Python code computes them.                          *)
(***************************************************************************)
EXTENDS Integers, Sequences, FiniteSets, TLC

VARIABLES
    \* fetch_folder_hierarchy / the path derivation of create_md_files
    folders, folder_paths, callStack, ret, todo, fpc, placed,
    \* save_attachment_previews
    task_attachments, backup_dir, backup_folders, taskIdx, attachment_refs,
    task_attachment_refs, attFiles, attWritten, apc,
    \* generate_md_content_with_title
    renderTasks, renderProjectId, renderStatus, renderContent, renderInput,
    renderCalls,
    \* main: the database snapshot, the output tree and the export run
    project_metadata, exportAttachments, exportRefs, outDirs, outFiles,
    run, epc, walkStack, written, moved, lastVisit

fvars == <<folders, folder_paths, callStack, ret, todo, fpc, placed>>

avars == <<task_attachments, backup_dir, backup_folders, taskIdx,
           attachment_refs, task_attachment_refs, attFiles, attWritten, apc>>

rvars == <<renderTasks, renderProjectId, renderStatus, renderContent,
           renderInput, renderCalls>>

evars == <<project_metadata, exportAttachments, exportRefs, outDirs,
           outFiles, run, epc, walkStack, written, moved, lastVisit>>

vars == <<fvars, avars, rvars, evars>>

\* What the folder resolver and the path derivation leave alone
notFolderVars == <<avars, rvars, evars>>

\* What the attachment resolver leaves alone
notAttachVars == <<fvars, rvars, evars>>

\* What the renderer leaves alone
notRenderVars == <<fvars, avars, evars>>

\* What an export run leaves alone
notExportVars == <<fvars, avars, rvars>>

(***************************************************************************)
(* Text helpers                                                            *)
(***************************************************************************)

\* Python's None for a reference or a string result
None == "None"

UpperChars == <<"A","B","C","D","E","F","G","H","I","J","K","L","M",
                "N","O","P","Q","R","S","T","U","V","W","X","Y","Z">>

LowerChars == <<"a","b","c","d","e","f","g","h","i","j","k","l","m",
                "n","o","p","q","r","s","t","u","v","w","x","y","z">>

\* str.lower() on one character
LowerChar(c) ==
    IF \E i \in 1..Len(UpperChars) : UpperChars[i] = c
    THEN LowerChars[CHOOSE i \in 1..Len(UpperChars) : UpperChars[i] = c]
    ELSE c

\* str.lower()
Lower(s) == [i \in 1..Len(s) |-> LowerChar(s[i])]

\* invalid_chars of sanitize_filename
InvalidChars == {"<", ">", ":", "\"", "/", "\\", "|", "?", "*"}

\* sanitize_filename: every invalid character replaced by "_"
sanitize_filename(filename) ==
    [i \in 1..Len(filename) |->
        IF filename[i] \in InvalidChars THEN "_" ELSE filename[i]]

\* The index of the first "/" of s, or 0
FirstSlash(s) ==
    IF \E i \in 1..Len(s) : s[i] = "/"
    THEN CHOOSE i \in 1..Len(s) :
            s[i] = "/" /\ \A j \in 1..(i - 1) : s[j] # "/"
    ELSE 0

RECURSIVE SplitSlash(_)
\* str.split("/"): the parts between the slashes, empty parts kept
SplitSlash(s) ==
    IF FirstSlash(s) = 0 THEN <<s>>
    ELSE <<SubSeq(s, 1, FirstSlash(s) - 1)>>
            \o SplitSlash(SubSeq(s, FirstSlash(s) + 1, Len(s)))

RECURSIVE JoinSlash(_)
\* "/".join(parts)
JoinSlash(parts) ==
    IF Len(parts) = 0 THEN <<>>
    ELSE IF Len(parts) = 1 THEN parts[1]
    ELSE parts[1] \o <<"/">> \o JoinSlash(Tail(parts))

\* The path components the operating system sees in a relative path:
\* the parts between the slashes, empty components dropped.
PathSegments(s) == SelectSeq(SplitSlash(s), LAMBDA p : Len(p) > 0)

\* str.startswith for one character
StartsWith(s, c) == Len(s) > 0 /\ s[1] = c

\* sub in s
Contains(sub, s) ==
    \E i \in 0..(Len(s) - Len(sub)) : SubSeq(s, i + 1, i + Len(sub)) = sub

(***************************************************************************)
(* Folder Path Resolver: fetch_folder_hierarchy and its get_folder_path    *)
(***************************************************************************)

\* The folder rows of the database, in the order the query returns them
FolderOrder == <<"F1", "F2", "F3">>

FolderIds == {FolderOrder[i] : i \in 1..Len(FolderOrder)}

\* A parent reference that names no folder of the collection
DanglingId == "Fx"

FolderNames == { <<"A">>, <<"a", "/", "b">>, <<"c", ":", "d">> }

ParentRefs == FolderIds \cup {None, DanglingId}

\* The depth of Python's call stack at which a further call raises
\* RecursionError
RecursionLimit == 6

\* A plausible slip: the parent path is joined even when it is empty.
JoinedPath_always_joins(parent_path, name) == parent_path \o <<"/">> \o name

\* path = f"{parent_path}/{folder['name']}" if parent_path else folder['name']
JoinedPath(parent_path, name) ==
    IF parent_path # <<>> THEN parent_path \o <<"/">> \o name ELSE name

\* The top frame of the call stack: the folder get_folder_path is running for
TopFolder == callStack[Len(callStack)]

Pop(stack) == SubSeq(stack, 1, Len(stack) - 1)

\* folder_paths[folder_id] = path
StorePath(paths, folder_id, path) ==
    [f \in DOMAIN paths \cup {folder_id} |->
        IF f = folder_id THEN path ELSE paths[f]]

\* for folder_id in folders: get_folder_path(folder_id)
FolderLoopNext ==
    /\ fpc = "loop"
    /\ callStack = <<>>
    /\ todo # <<>>
    /\ callStack' = <<Head(todo)>>
    /\ todo' = Tail(todo)
    /\ ret' = <<>>
    /\ UNCHANGED <<folders, folder_paths, fpc, placed>>
    /\ UNCHANGED notFolderVars

\* The loop is over: fetch_folder_hierarchy returns folder_paths
FolderLoopDone ==
    /\ fpc = "loop"
    /\ callStack = <<>>
    /\ todo = <<>>
    /\ fpc' = "done"
    /\ ret' = <<>>
    /\ UNCHANGED <<folders, folder_paths, callStack, todo, placed>>
    /\ UNCHANGED notFolderVars

\* get_folder_path from its entry to its first return or to the recursive
\* call on the parent
GetFolderPathEnter ==
    /\ fpc = "loop"
    /\ callStack # <<>>
    /\ ret = <<>>
    /\ IF TopFolder \notin DOMAIN folders
       THEN /\ ret' = << <<>> >>
            /\ callStack' = Pop(callStack)
            /\ UNCHANGED <<folder_paths, fpc>>
       ELSE IF TopFolder \in DOMAIN folder_paths
       THEN /\ ret' = <<folder_paths[TopFolder]>>
            /\ callStack' = Pop(callStack)
            /\ UNCHANGED <<folder_paths, fpc>>
       ELSE IF folders[TopFolder].parent # None
       THEN IF Len(callStack) >= RecursionLimit
            THEN /\ fpc' = "crashed"
                 /\ UNCHANGED <<folder_paths, callStack, ret>>
            ELSE /\ callStack' = Append(callStack, folders[TopFolder].parent)
                 /\ UNCHANGED <<folder_paths, ret, fpc>>
       ELSE /\ folder_paths' =
                    StorePath(folder_paths, TopFolder, folders[TopFolder].name)
            /\ ret' = <<folders[TopFolder].name>>
            /\ callStack' = Pop(callStack)
            /\ UNCHANGED fpc
    /\ UNCHANGED <<folders, todo, placed>>
    /\ UNCHANGED notFolderVars

\* get_folder_path after the recursive call has returned the parent's path
GetFolderPathResume ==
    /\ fpc = "loop"
    /\ callStack # <<>>
    /\ ret # <<>>
    /\ folder_paths' = StorePath(folder_paths, TopFolder,
                            JoinedPath(ret[1], folders[TopFolder].name))
    /\ ret' = <<JoinedPath(ret[1], folders[TopFolder].name)>>
    /\ callStack' = Pop(callStack)
    /\ UNCHANGED <<folders, todo, fpc, placed>>
    /\ UNCHANGED notFolderVars

(***************************************************************************)
(* The path derivation of create_md_files                                  *)
(***************************************************************************)

STR_ACTIVE == <<"a", "c", "t", "i", "v", "e">>

STR_INACTIVE == <<"i", "n", "a", "c", "t", "i", "v", "e">>

STR_DONE == <<"d", "o", "n", "e">>

STR_DROPPED == <<"d", "r", "o", "p", "p", "e", "d">>

\* The status create_md_files gives a group whose project has no metadata
STR_NA == <<"N", "/", "A">>

STR_INBOX == <<"I", "n", "b", "o", "x">>

Statuses == { STR_ACTIVE, <<"A", "c", "t", "i", "v", "e">>, STR_INACTIVE,
              STR_DONE, STR_DROPPED, STR_NA }

ProjectNames == { <<>>, <<"W">>, <<"W", "?">> }

\* A plausible slip: the visible "(inactive)" convention is forgotten.
StatusFolder_always_hidden(project_status) ==
    <<".", "(">> \o sanitize_filename(Lower(project_status)) \o <<")">>

\* status_folder of a non-active project
StatusFolder(project_status) ==
    IF Lower(project_status) = STR_INACTIVE
    THEN <<"(">> \o sanitize_filename(Lower(project_status)) \o <<")">>
    ELSE <<".", "(">> \o sanitize_filename(Lower(project_status)) \o <<")">>

\* status_suffix
StatusSuffix(project_status) ==
    IF Lower(project_status) # STR_ACTIVE
    THEN <<" ", "(">> \o project_status \o <<")">>
    ELSE <<>>

\* sanitized_name
SanitizedName(project_name, project_status) ==
    sanitize_filename(
        (IF project_name # <<>> THEN project_name ELSE STR_INBOX)
            \o StatusSuffix(project_status))

\* sanitized_folder_path: the folder path split at "/" and each part sanitized
SanitizedFolderPath(folder_path) ==
    JoinSlash([i \in 1..Len(SplitSlash(folder_path)) |->
                    sanitize_filename(SplitSlash(folder_path)[i])])

\* full_path of one project group
FullPath(project_name, project_status, folder_path) ==
    IF folder_path # <<>>
    THEN IF Lower(project_status) # STR_ACTIVE
         THEN SanitizedFolderPath(folder_path) \o <<"/">>
                \o StatusFolder(project_status) \o <<"/">>
                \o SanitizedName(project_name, project_status)
         ELSE SanitizedFolderPath(folder_path) \o <<"/">>
                \o SanitizedName(project_name, project_status)
    ELSE IF Lower(project_status) # STR_ACTIVE
         THEN StatusFolder(project_status) \o <<"/">>
                \o SanitizedName(project_name, project_status)
         ELSE SanitizedName(project_name, project_status)

\* folder_hierarchy.get(folder_id, "") if folder_id else ""
FolderPathOf(hierarchy, folder_id) ==
    IF folder_id # None /\ folder_id \in DOMAIN hierarchy
    THEN hierarchy[folder_id]
    ELSE <<>>

\* create_md_files derives the file path of one project group from the
\* folder paths fetch_folder_hierarchy returned
PlaceProject ==
    /\ fpc = "done"
    /\ placed = <<>>
    /\ \E project_name \in ProjectNames, project_status \in Statuses,
          folder_id \in ParentRefs :
            placed' = << [ project_name |-> project_name,
                           project_status |-> project_status,
                           folder_id |-> folder_id,
                           folder_path |-> FolderPathOf(folder_paths, folder_id),
                           full_path |-> FullPath(project_name, project_status,
                                    FolderPathOf(folder_paths, folder_id)) ] >>
    /\ UNCHANGED <<folders, folder_paths, callStack, ret, todo, fpc>>
    /\ UNCHANGED notFolderVars

FolderNext ==
    \/ FolderLoopNext
    \/ FolderLoopDone
    \/ GetFolderPathEnter
    \/ GetFolderPathResume
    \/ PlaceProject

(***************************************************************************)
(* Attachment Resolver: save_attachment_previews and                       *)
(* extract_attachment_from_backup                                          *)
(***************************************************************************)

\* The tasks of task_attachments in iteration order
TaskOrder == <<"T1", "T2">>

\* The task identifier as text
TaskIdText(task_id) == IF task_id = "T1" THEN <<"T", "1">> ELSE <<"T", "2">>

STR_ATTACHMENT_ == <<"a", "t", "t", "a", "c", "h", "m", "e", "n", "t", "_">>

STR_ATTACHMENTS == <<"a", "t", "t", "a", "c", "h", "m", "e", "n", "t", "s">>

\* str(i) for an index below ten
DigitText(i) == <<<<"0", "1", "2", "3", "4", "5", "6", "7", "8", "9">>[i + 1]>>

\* A file_path of None
NoPath == <<>>

\* The names an attachment may carry; <<>> is a missing (None or empty) name
AttachmentNames == { <<>>, <<"a", ":">>, <<"a", "_">> }

\* What <newest bundle>/data/<dataIdentifier>.zip is for an attachment:
\*   "missing"    no such file
\*   "corrupt"    not a zip archive: zipfile.ZipFile raises
\*   "empty"      an archive without entries
\*   "truncated"  an archive whose first entry opens and whose data cannot
\*                be read to the end: source.read() raises
\*   "ok"         an archive whose first entry is read in full
ArchiveStates == {"missing", "corrupt", "empty", "truncated", "ok"}

\* The attachment rows: name, preview blob or not, data identifier or not,
\* and the state of the archive of its data identifier
AttachmentRows ==
    { a \in [ name : AttachmentNames, preview_data : BOOLEAN,
              dataIdentifier : BOOLEAN, archive : ArchiveStates ] :
        ~a.dataIdentifier => a.archive = "missing" }

\* base_name and filename of the i-th attachment (i from 0) of a task
AttachmentFilename(task_id, i, attachment) ==
    TaskIdText(task_id) \o <<"_">> \o
        sanitize_filename(IF attachment.name # <<>> THEN attachment.name
                          ELSE STR_ATTACHMENT_ \o DigitText(i))

\* extract_attachment_from_backup: whether it returns True, and what it has
\* left at output_path: nothing, the entry's full content, or the file that
\* open(output_path, 'wb') created before source.read() raised
ExtractAttachmentFromBackup(attachment, bundles) ==
    IF ~bundles THEN [extracted |-> FALSE, wrote |-> "nothing"]
    ELSE IF attachment.archive = "missing"
    THEN [extracted |-> FALSE, wrote |-> "nothing"]
    ELSE IF attachment.archive \in {"corrupt", "empty"}
    THEN [extracted |-> FALSE, wrote |-> "nothing"]
    ELSE IF attachment.archive = "truncated"
    THEN [extracted |-> FALSE, wrote |-> "partial"]
    ELSE [extracted |-> TRUE, wrote |-> "full"]

\* full_res_extracted and what the extraction left on disk
TryFullRes(attachment, backup, bundles) ==
    IF backup /\ attachment.dataIdentifier
    THEN ExtractAttachmentFromBackup(attachment, bundles)
    ELSE [extracted |-> FALSE, wrote |-> "nothing"]

\* A plausible slip: the preview is preferred to the full-resolution copy.
AttachmentRef_preview_first(attachment, filename, full_res_extracted) ==
    IF attachment.preview_data
    THEN [ name |-> attachment.name,
           file_path |-> STR_ATTACHMENTS \o <<"/">> \o filename,
           has_preview |-> TRUE, is_full_res |-> FALSE ]
    ELSE IF full_res_extracted
    THEN [ name |-> attachment.name,
           file_path |-> STR_ATTACHMENTS \o <<"/">> \o filename,
           has_preview |-> TRUE, is_full_res |-> TRUE ]
    ELSE [ name |-> attachment.name, file_path |-> NoPath,
           has_preview |-> FALSE, is_full_res |-> FALSE ]

\* The reference appended for one attachment (size_str left out)
AttachmentRef(attachment, filename, full_res_extracted) ==
    IF ~full_res_extracted /\ attachment.preview_data
    THEN [ name |-> attachment.name,
           file_path |-> STR_ATTACHMENTS \o <<"/">> \o filename,
           has_preview |-> TRUE, is_full_res |-> FALSE ]
    ELSE IF full_res_extracted
    THEN [ name |-> attachment.name,
           file_path |-> STR_ATTACHMENTS \o <<"/">> \o filename,
           has_preview |-> TRUE, is_full_res |-> TRUE ]
    ELSE [ name |-> attachment.name, file_path |-> NoPath,
           has_preview |-> FALSE, is_full_res |-> FALSE ]

\* The content of the destination file after one attachment was handled:
\* prior is what was there before; the preview is written over whatever
\* the failed extraction left
FileAfter(prior, attachment, full, by) ==
    IF ~full.extracted /\ attachment.preview_data
    THEN << [kind |-> "preview", by |-> by] >>
    ELSE IF full.wrote # "nothing"
    THEN << [kind |-> full.wrote, by |-> by] >>
    ELSE prior

\* files[filename] = content; content <<>> leaves the files as they are
PutFile(files, filename, content) ==
    IF content = <<>> THEN files
    ELSE [f \in DOMAIN files \cup {filename} |->
            IF f = filename THEN content[1] ELSE files[f]]

\* task_attachments.items(): the tasks that have attachments, in order
AttachTasks == SelectSeq(TaskOrder, LAMBDA t : t \in DOMAIN task_attachments)

\* The task whose attachments are being saved
CurrentTask == AttachTasks[taskIdx]

\* One iteration of the inner loop of save_attachment_previews: the next
\* attachment of the current task
SaveAttachment ==
    /\ apc = "run"
    /\ taskIdx <= Len(AttachTasks)
    /\ Len(attachment_refs) < Len(task_attachments[CurrentTask])
    /\ LET i == Len(attachment_refs)
           attachment == task_attachments[CurrentTask][i + 1]
           filename == AttachmentFilename(CurrentTask, i, attachment)
           full == TryFullRes(attachment, backup_dir, backup_folders)
           by == <<CurrentTask, i>>
           prior == IF filename \in DOMAIN attFiles
                    THEN <<attFiles[filename]>> ELSE <<>>
           after == FileAfter(prior, attachment, full, by)
       IN  /\ attachment_refs' = Append(attachment_refs,
                    AttachmentRef(attachment, filename, full.extracted))
           /\ attFiles' = PutFile(attFiles, filename, after)
           /\ attWritten' =
                IF full.wrote # "nothing"
                   \/ (~full.extracted /\ attachment.preview_data)
                THEN attWritten \cup {[filename |-> filename, by |-> by]}
                ELSE attWritten
    /\ UNCHANGED <<task_attachments, backup_dir, backup_folders, taskIdx,
                   task_attachment_refs, apc>>
    /\ UNCHANGED notAttachVars

\* The inner loop is over for the current task: its references are stored
\* when there are any, and the outer loop goes on
FinishTask ==
    /\ apc = "run"
    /\ taskIdx <= Len(AttachTasks)
    /\ Len(attachment_refs) = Len(task_attachments[CurrentTask])
    /\ task_attachment_refs' =
            IF attachment_refs # <<>>
            THEN [t \in DOMAIN task_attachment_refs \cup {CurrentTask} |->
                    IF t = CurrentTask THEN attachment_refs
                    ELSE task_attachment_refs[t]]
            ELSE task_attachment_refs
    /\ attachment_refs' = <<>>
    /\ taskIdx' = taskIdx + 1
    /\ UNCHANGED <<task_attachments, backup_dir, backup_folders, attFiles,
                   attWritten, apc>>
    /\ UNCHANGED notAttachVars

\* save_attachment_previews returns task_attachment_refs
AttachDone ==
    /\ apc = "run"
    /\ taskIdx > Len(AttachTasks)
    /\ apc' = "done"
    /\ UNCHANGED <<task_attachments, backup_dir, backup_folders, taskIdx,
                   attachment_refs, task_attachment_refs, attFiles, attWritten>>
    /\ UNCHANGED notAttachVars

\* The attachment tables save_attachment_previews may be given: one task
\* with one or two attachments, or two tasks with one attachment each
AttachmentTables ==
    { [t \in {"T1"} |-> <<a>>] : a \in AttachmentRows }
    \cup { [t \in {"T1"} |-> <<a, b>>] : a, b \in AttachmentRows }
    \cup { [t \in {"T1", "T2"} |-> IF t = "T1" THEN <<a>> ELSE <<b>>] :
                a, b \in AttachmentRows }

AttachNext ==
    \/ SaveAttachment
    \/ FinishTask
    \/ AttachDone

(***************************************************************************)
(* Markdown Renderer: generate_md_content_with_title and its formatters    *)
(* (names, notes and dates are left out of a rendered line)                *)
(***************************************************************************)

STR_OMNIFOCUS_TAG == <<"#", "o", "m", "n", "i", "f", "o", "c", "u", "s">>

\* str.replace(' ', '-')
Hyphenate(s) == [i \in 1..Len(s) |-> IF s[i] = " " THEN "-" ELSE s[i]]

\* format_task_tags: the task's tags, the project status unless it is
\* active, and #omnifocus
FormatTaskTags(tags, status) ==
    [i \in 1..Len(tags) |-> <<"#">> \o Hyphenate(tags[i])]
        \o (IF status # <<>> /\ Lower(status) # STR_ACTIVE
            THEN << <<"#">> \o Hyphenate(status) >> ELSE <<>>)
        \o <<STR_OMNIFOCUS_TAG>>

\* format_attachments: one sub-item per reference, an inline image when a
\* file was written and the bare name otherwise
FormatAttachments(refs) ==
    [i \in 1..Len(refs) |->
        IF refs[i].has_preview /\ refs[i].file_path # NoPath
        THEN [image |-> TRUE, name |-> refs[i].name, path |-> refs[i].file_path]
        ELSE [image |-> FALSE, name |-> refs[i].name]]

\* dict.get(key, [])
GetOrEmpty(map, key) == IF key \in DOMAIN map THEN map[key] ELSE <<>>

\* The index of the first task whose identifier is project_id, or 0
TitleIndex(task_list, pid) ==
    IF \E i \in 1..Len(task_list) : task_list[i].task_identifier = pid
    THEN CHOOSE i \in 1..Len(task_list) :
            /\ task_list[i].task_identifier = pid
            /\ \A j \in 1..(i - 1) : task_list[j].task_identifier # pid
    ELSE 0

\* A plausible slip: the title task is found and left in the list.
WithoutTitle_keeps_it(task_list, pid) == task_list

\* The list after tasks.remove(title_task): the first task whose identifier
\* is project_id taken out, the list unchanged when there is none
WithoutTitle(task_list, pid) ==
    IF TitleIndex(task_list, pid) = 0 THEN task_list
    ELSE SubSeq(task_list, 1, TitleIndex(task_list, pid) - 1)
            \o SubSeq(task_list, TitleIndex(task_list, pid) + 1, Len(task_list))

\* The level-1 heading of the title task
TitleLine(task, task_tags, status, refs) ==
    [ kind |-> "heading",
      task |-> task.task_identifier,
      tags |-> FormatTaskTags(GetOrEmpty(task_tags, task.task_identifier), status),
      attachments |-> FormatAttachments(GetOrEmpty(refs, task.task_identifier)) ]

\* The list item of any other task
TaskLine(task, task_tags, status, refs) ==
    [ kind |-> "item",
      checkbox |-> IF task.is_completed THEN "- [x]"
                   ELSE IF task.is_dropped THEN "- [c]" ELSE "- [ ]",
      task |-> task.task_identifier,
      tags |-> FormatTaskTags(GetOrEmpty(task_tags, task.task_identifier), status),
      attachments |-> FormatAttachments(GetOrEmpty(refs, task.task_identifier)) ]

\* The content generate_md_content_with_title returns: the heading when
\* there is a title task, then one line per task left in the list
GeneratedContent(task_list, pid, task_tags, status, refs) ==
    (IF TitleIndex(task_list, pid) # 0
     THEN <<TitleLine(task_list[TitleIndex(task_list, pid)], task_tags, status, refs)>>
     ELSE <<>>)
    \o [i \in 1..Len(WithoutTitle(task_list, pid)) |->
            TaskLine(WithoutTitle(task_list, pid)[i], task_tags, status, refs)]

\* The tags of the tasks, by task identifier
TaskTags == [t \in {"T1"} |-> << <<"u", " ", "v">> >>]

\* How many times the renderer is called on the same list
MaxRenderCalls == 2

\* One call of generate_md_content_with_title on the list renderTasks: it
\* returns the content and leaves the list without its title task
GenerateMdContentWithTitle ==
    /\ renderCalls < MaxRenderCalls
    /\ renderInput' = <<renderTasks>>
    /\ renderContent' = <<GeneratedContent(renderTasks, renderProjectId,
                                TaskTags, renderStatus, <<>>)>>
    /\ renderTasks' = WithoutTitle(renderTasks, renderProjectId)
    /\ renderCalls' = renderCalls + 1
    /\ UNCHANGED <<renderProjectId, renderStatus>>
    /\ UNCHANGED notRenderVars

RenderTaskIds == {"T1", "T2", "T3"}

\* The task rows of one project group: up to three tasks with distinct
\* identifiers, in any order
RenderTaskLists ==
    { l \in UNION { [1..n -> [ task_identifier : RenderTaskIds,
                               is_completed : BOOLEAN,
                               is_dropped : BOOLEAN ]] : n \in 1..3 } :
        \A i, j \in 1..Len(l) :
            i # j => l[i].task_identifier # l[j].task_identifier }

RenderNext ==
    \/ GenerateMdContentWithTitle

(***************************************************************************)
(* File Materializer: main, create_md_files and reorganize_empty_folders   *)
(*                                                                         *)
(* The output tree is the set outDirs of its directories and the function  *)
(* outFiles from its files to their content; a path is the sequence of its *)
(* components below the output directory, <<>> being the output directory. *)
(***************************************************************************)

STR_MD == <<".", "m", "d">>

\* The folders of the exported database: A, and B inside A
ExportFolderIds == {"F1", "F2"}

\* What fetch_folder_hierarchy returns for them
ExportHierarchy ==
    [f \in ExportFolderIds |-> IF f = "F1" THEN <<"A">> ELSE <<"A", "/", "B">>]

\* The projects of the exported database, in the order of the task rows
ExportProjectOrder == <<"P1", "P2">>

ExportProjectIds == {"P1", "P2"}

\* Both projects carry the same name
ExportProjectName == <<"W">>

ExportStatuses == {STR_ACTIVE, STR_INACTIVE, STR_DONE, STR_DROPPED}

\* The task rows: each project's own task, and one more task in P1
ExportTasks ==
    << [task_identifier |-> "P1", project_id |-> "P1",
        is_completed |-> FALSE, is_dropped |-> FALSE],
       [task_identifier |-> "T1", project_id |-> "P1",
        is_completed |-> TRUE, is_dropped |-> FALSE],
       [task_identifier |-> "P2", project_id |-> "P2",
        is_completed |-> FALSE, is_dropped |-> FALSE] >>

\* The attachment tables of the exported database: none, or one attachment
\* of task T1 with a preview blob
ExportAttachmentTables ==
    { <<>>,
      [t \in {"T1"} |-> << [ name |-> <<"a", ":">>, preview_data |-> TRUE,
                             dataIdentifier |-> FALSE,
                             archive |-> "missing" ] >>] }

\* tasks_grouped_by_project[(project_name, project_id)]
TasksOfProject(pid) == SelectSeq(ExportTasks, LAMBDA t : t.project_id = pid)

\* The proper prefixes of a path: the directories os.makedirs creates for
\* the file or directory at that path
ParentDirs(path) == { SubSeq(path, 1, n) : n \in 1..(Len(path) - 1) }

\* path is root or lies below it
IsUnder(path, root) ==
    Len(path) >= Len(root) /\ SubSeq(path, 1, Len(root)) = root

\* The names of the subdirectories of the directory root
ChildDirs(dirs, root) ==
    { p[Len(p)] : p \in { q \in dirs : Len(q) = Len(root) + 1 /\ IsUnder(q, root) } }

\* The names of the files of the directory root
ChildFiles(files, root) ==
    { p[Len(p)] : p \in { q \in DOMAIN files :
                                Len(q) = Len(root) + 1 /\ IsUnder(q, root) } }

\* The (task, index) pairs of an attachment table
AttachmentSlots(attachments) ==
    { s \in (DOMAIN attachments) \X (1..2) : s[2] <= Len(attachments[s[1]]) }

\* save_attachment_previews as main calls it here, without a backup
\* directory: the references of every task that has attachments
ExportAttachmentRefs(attachments) ==
    [ t \in DOMAIN attachments |->
        [ i \in 1..Len(attachments[t]) |->
            AttachmentRef(attachments[t][i],
                          AttachmentFilename(t, i - 1, attachments[t][i]),
                          TryFullRes(attachments[t][i], FALSE, FALSE).extracted) ] ]

\* The files it writes under attachments/: the previews
ExportAttachmentFiles(attachments) ==
    { <<STR_ATTACHMENTS,
        AttachmentFilename(s[1], s[2] - 1, attachments[s[1]][s[2]])>> :
        s \in { x \in AttachmentSlots(attachments) :
                    attachments[x[1]][x[2]].preview_data } }

\* main up to create_md_files: save_attachment_previews creates attachments/
\* and writes the previews
ExportSaveAttachments ==
    /\ epc = "attachments"
    /\ exportRefs' = ExportAttachmentRefs(exportAttachments)
    /\ outDirs' = outDirs \cup {<<STR_ATTACHMENTS>>}
    /\ outFiles' =
         [ p \in DOMAIN outFiles \cup ExportAttachmentFiles(exportAttachments) |->
            IF p \in ExportAttachmentFiles(exportAttachments)
            THEN <<"preview">> ELSE outFiles[p] ]
    /\ epc' = "create"
    /\ UNCHANGED <<project_metadata, exportAttachments, run, walkStack,
                   written, moved, lastVisit>>
    /\ UNCHANGED notExportVars

\* project_metadata.get(project_id, (project_id, "Untitled", "N/A", None))
ProjectInfo(metadata, pid) ==
    IF pid \in DOMAIN metadata THEN metadata[pid]
    ELSE [project_status |-> STR_NA, folder_id |-> None]

\* os.path.join(output_directory, f"{full_path}.md") of a project group, as
\* path components
GroupFile(metadata, pid) ==
    PathSegments(
        FullPath(ExportProjectName, ProjectInfo(metadata, pid).project_status,
                 FolderPathOf(ExportHierarchy, ProjectInfo(metadata, pid).folder_id))
        \o STR_MD)

\* files_by_path[full_path]: the project groups of one file, in order
GroupsOfFile(metadata, file) ==
    SelectSeq(ExportProjectOrder, LAMBDA pid : GroupFile(metadata, pid) = file)

\* combined_content.strip(): per project group its metadata block and its
\* rendered tasks
CombinedContent(metadata, refs, file) ==
    [ i \in 1..Len(GroupsOfFile(metadata, file)) |->
        LET pid == GroupsOfFile(metadata, file)[i]
        IN  [ status |-> ProjectInfo(metadata, pid).project_status,
              body |-> GeneratedContent(TasksOfProject(pid), pid, TaskTags,
                            ProjectInfo(metadata, pid).project_status, refs) ] ]

\* The paths of files_by_path
TargetFiles(metadata) == { GroupFile(metadata, pid) : pid \in ExportProjectIds }

\* The files create_md_files writes: those that do not exist or whose
\* content differs from the newly generated one (compute_md5 compares)
FilesToWrite(files, metadata, refs) ==
    { f \in TargetFiles(metadata) :
        ~(f \in DOMAIN files /\ files[f] = CombinedContent(metadata, refs, f)) }

\* create_md_files
CreateMdFiles ==
    /\ epc = "create"
    /\ outDirs' = outDirs \cup
            UNION { ParentDirs(f) : f \in TargetFiles(project_metadata) }
    /\ outFiles' =
         [ p \in DOMAIN outFiles
                    \cup FilesToWrite(outFiles, project_metadata, exportRefs) |->
            IF p \in FilesToWrite(outFiles, project_metadata, exportRefs)
            THEN CombinedContent(project_metadata, exportRefs, p)
            ELSE outFiles[p] ]
    /\ written' = FilesToWrite(outFiles, project_metadata, exportRefs)
    /\ epc' = "reorganize"
    /\ UNCHANGED <<project_metadata, exportAttachments, exportRefs, run,
                   walkStack, moved, lastVisit>>
    /\ UNCHANGED notExportVars

\* os.walk reads a directory: the names of its subdirectories and files as
\* they are now, and the subdirectories it still has to walk
WalkFrame(root) ==
    [ root |-> root,
      dirs |-> ChildDirs(outDirs, root),
      files |-> ChildFiles(outFiles, root),
      pending |-> ChildDirs(outDirs, root) ]

TopFrame == walkStack[Len(walkStack)]

\* reorganize_empty_folders starts os.walk(output_directory, topdown=False)
WalkStart ==
    /\ epc = "reorganize"
    /\ walkStack' = <<WalkFrame(<<>>)>>
    /\ epc' = "walk"
    /\ UNCHANGED <<project_metadata, exportAttachments, exportRefs, outDirs,
                   outFiles, run, written, moved, lastVisit>>
    /\ UNCHANGED notExportVars

\* os.walk goes down into the next subdirectory of the directory it is in,
\* in the order the operating system lists them (any), and reads it then
WalkDescend ==
    /\ epc = "walk"
    /\ walkStack # <<>>
    /\ \E d \in TopFrame.pending :
        LET rest == [walkStack EXCEPT ![Len(walkStack)].pending = @ \ {d}]
            child == Append(TopFrame.root, d)
        IN  walkStack' = IF child \in outDirs
                         THEN Append(rest, WalkFrame(child))
                         ELSE rest
    /\ UNCHANGED <<project_metadata, exportAttachments, exportRefs, outDirs,
                   outFiles, run, epc, written, moved, lastVisit>>
    /\ UNCHANGED notExportVars

\* any(part.startswith('.') for part in path_parts)
HasDotPart(root) == \E i \in 1..Len(root) : StartsWith(root[i], ".")

\* A plausible slip: the files of the directory are not looked at.
TargetStatus_ignores_files(dirs, files) ==
    IF ~(\E d \in dirs : ~StartsWith(d, ".") /\ ~StartsWith(d, "("))
    THEN IF \E d \in dirs : Contains(<<".", "(">> \o STR_DROPPED \o <<")">>, d)
         THEN <<STR_DROPPED>>
         ELSE IF \E d \in dirs : StartsWith(d, ".")
         THEN <<STR_DONE>>
         ELSE IF dirs = {} THEN <<STR_DONE>> ELSE <<>>
    ELSE <<>>

\* target_status of a directory with the listed subdirectories and files,
\* <<>> when should_move stays False
TargetStatus(dirs, files) ==
    IF files = {} /\ ~(\E d \in dirs : ~StartsWith(d, ".") /\ ~StartsWith(d, "("))
    THEN IF \E d \in dirs : Contains(<<".", "(">> \o STR_DROPPED \o <<")">>, d)
         THEN <<STR_DROPPED>>
         ELSE IF \E d \in dirs : StartsWith(d, ".")
         THEN <<STR_DONE>>
         ELSE IF dirs = {} THEN <<STR_DONE>> ELSE <<>>
    ELSE <<>>

\* target_dir: the sibling .(status) of the directory root
TargetDir(root, status) ==
    Append(SubSeq(root, 1, Len(root) - 1), <<".", "(">> \o status \o <<")">>)

\* Where a path at or below root is after root has become target_path
MovedPath(path, root, target_path) ==
    target_path \o SubSeq(path, Len(root) + 1, Len(path))

\* The directories after root has been relocated to target_path: by
\* shutil.move when target_path did not exist, and otherwise item by item
\* (move, or copytree over the existing directory and rmtree) and os.rmdir;
\* either way what was under root is under target_path, united with what
\* was there
DirsAfterMove(dirs, root, target_path) ==
    { p \in dirs : ~IsUnder(p, root) }
        \cup ParentDirs(target_path)
        \cup { MovedPath(p, root, target_path) : p \in { q \in dirs : IsUnder(q, root) } }

\* The files after it: a moved file replaces a file of the same path
FilesAfterMove(files, root, target_path) ==
    LET gone == { p \in DOMAIN files : IsUnder(p, root) }
        come == { MovedPath(p, root, target_path) : p \in gone }
    IN  [ p \in ((DOMAIN files) \ gone) \cup come |->
            IF p \in come
            THEN files[root \o SubSeq(p, Len(target_path) + 1, Len(p))]
            ELSE files[p] ]

\* The last component of the path ends in ".md"
IsMarkdown(path) ==
    /\ Len(path[Len(path)]) >= Len(STR_MD)
    /\ SubSeq(path[Len(path)], Len(path[Len(path)]) - Len(STR_MD) + 1,
              Len(path[Len(path)])) = STR_MD

\* The loop body of reorganize_empty_folders for the directory os.walk
\* yields: every subdirectory of it has been walked; dirs and files are the
\* names os.walk read when it entered the directory
ReorganizeVisit ==
    /\ epc = "walk"
    /\ walkStack # <<>>
    /\ TopFrame.pending = {}
    /\ LET root == TopFrame.root
           skipped == root = <<>> \/ HasDotPart(root)
           target_status == IF skipped THEN <<>>
                            ELSE TargetStatus(TopFrame.dirs, TopFrame.files)
           target_path == IF target_status = <<>> THEN <<>>
                          ELSE Append(TargetDir(root, target_status[1]),
                                      root[Len(root)])
       IN  /\ lastVisit' = << [ root |-> root,
                                skipped |-> skipped,
                                actualDirs |-> ChildDirs(outDirs, root),
                                actualFiles |-> ChildFiles(outFiles, root),
                                target_status |-> target_status,
                                merged |-> target_path \in outDirs ] >>
           /\ IF target_status # <<>>
              THEN /\ outDirs' = DirsAfterMove(outDirs, root, target_path)
                   /\ outFiles' = FilesAfterMove(outFiles, root, target_path)
                   /\ moved' = moved \cup
                        { p \in DOMAIN outFiles : IsUnder(p, root) /\ IsMarkdown(p) }
              ELSE UNCHANGED <<outDirs, outFiles, moved>>
    /\ walkStack' = Pop(walkStack)
    /\ UNCHANGED <<project_metadata, exportAttachments, exportRefs, run, epc,
                   written>>
    /\ UNCHANGED notExportVars

\* os.walk is exhausted: reorganize_empty_folders and main return
WalkEnd ==
    /\ epc = "walk"
    /\ walkStack = <<>>
    /\ epc' = "finished"
    /\ UNCHANGED <<project_metadata, exportAttachments, exportRefs, outDirs,
                   outFiles, run, walkStack, written, moved, lastVisit>>
    /\ UNCHANGED notExportVars

\* How many times the export is run on the same database and output tree
MaxRuns == 2

\* The export is run again, on the unchanged database and the output tree
\* the previous run left
ExportAgain ==
    /\ epc = "finished"
    /\ run < MaxRuns
    /\ run' = run + 1
    /\ epc' = "attachments"
    /\ exportRefs' = <<>>
    /\ written' = {}
    /\ moved' = {}
    /\ lastVisit' = <<>>
    /\ UNCHANGED <<project_metadata, exportAttachments, outDirs, outFiles,
                   walkStack>>
    /\ UNCHANGED notExportVars

ExportNext ==
    \/ ExportSaveAttachments
    \/ CreateMdFiles
    \/ WalkStart
    \/ WalkDescend
    \/ ReorganizeVisit
    \/ WalkEnd
    \/ ExportAgain

\* What the database holds for the projects after one project has changed
\* its status or its folder
ChangedMetadata(metadata) ==
    { m \in [ExportProjectIds -> [project_status : ExportStatuses,
                                  folder_id : ExportFolderIds \cup {None}]] :
        \E pid \in ExportProjectIds :
            /\ m[pid] # metadata[pid]
            /\ \/ m[pid].project_status = metadata[pid].project_status
               \/ m[pid].folder_id = metadata[pid].folder_id
            /\ \A other \in ExportProjectIds \ {pid} : m[other] = metadata[other] }

\* The export is run again into the output tree the previous run left, after
\* a project of the database has changed: main reads the database anew
ExportAfterChange ==
    /\ epc = "finished"
    /\ run < MaxRuns
    /\ project_metadata' \in ChangedMetadata(project_metadata)
    /\ run' = run + 1
    /\ epc' = "attachments"
    /\ exportRefs' = <<>>
    /\ written' = {}
    /\ moved' = {}
    /\ lastVisit' = <<>>
    /\ UNCHANGED <<exportAttachments, outDirs, outFiles, walkStack>>
    /\ UNCHANGED notExportVars

\* Successive export runs of a database that may change between them
ChangingNext ==
    \/ ExportSaveAttachments
    \/ CreateMdFiles
    \/ WalkStart
    \/ WalkDescend
    \/ ReorganizeVisit
    \/ WalkEnd
    \/ ExportAgain
    \/ ExportAfterChange

(***************************************************************************)
(* Specifications: each starts one component and leaves the others at rest *)
(***************************************************************************)

\* The folder rows are read; no path is resolved yet
FolderInit ==
    /\ folders \in [FolderIds -> [name : FolderNames, parent : ParentRefs]]
    /\ folder_paths = <<>>
    /\ callStack = <<>>
    /\ ret = <<>>
    /\ todo = FolderOrder
    /\ fpc = "loop"
    /\ placed = <<>>
    /\ task_attachments = <<>>
    /\ backup_dir = FALSE
    /\ backup_folders = FALSE
    /\ taskIdx = 1
    /\ attachment_refs = <<>>
    /\ task_attachment_refs = <<>>
    /\ attFiles = <<>>
    /\ attWritten = {}
    /\ apc = "idle"
    /\ renderTasks = <<>>
    /\ renderProjectId = None
    /\ renderStatus = <<>>
    /\ renderContent = <<>>
    /\ renderInput = <<>>
    /\ renderCalls = 0
    /\ project_metadata = <<>>
    /\ exportAttachments = <<>>
    /\ exportRefs = <<>>
    /\ outDirs = {}
    /\ outFiles = <<>>
    /\ run = 0
    /\ epc = "idle"
    /\ walkStack = <<>>
    /\ written = {}
    /\ moved = {}
    /\ lastVisit = <<>>

SpecFolders == FolderInit /\ [][FolderNext]_vars

\* save_attachment_previews is entered with the attachment rows
AttachInit ==
    /\ folders = <<>>
    /\ folder_paths = <<>>
    /\ callStack = <<>>
    /\ ret = <<>>
    /\ todo = <<>>
    /\ fpc = "idle"
    /\ placed = <<>>
    /\ task_attachments \in AttachmentTables
    /\ backup_dir \in BOOLEAN
    /\ backup_folders \in BOOLEAN
    /\ taskIdx = 1
    /\ attachment_refs = <<>>
    /\ task_attachment_refs = <<>>
    /\ attFiles = <<>>
    /\ attWritten = {}
    /\ apc = "run"
    /\ renderTasks = <<>>
    /\ renderProjectId = None
    /\ renderStatus = <<>>
    /\ renderContent = <<>>
    /\ renderInput = <<>>
    /\ renderCalls = 0
    /\ project_metadata = <<>>
    /\ exportAttachments = <<>>
    /\ exportRefs = <<>>
    /\ outDirs = {}
    /\ outFiles = <<>>
    /\ run = 0
    /\ epc = "idle"
    /\ walkStack = <<>>
    /\ written = {}
    /\ moved = {}
    /\ lastVisit = <<>>

SpecAttach == AttachInit /\ [][AttachNext]_vars

\* The task rows of one project group, before the renderer is called
RenderInit ==
    /\ folders = <<>>
    /\ folder_paths = <<>>
    /\ callStack = <<>>
    /\ ret = <<>>
    /\ todo = <<>>
    /\ fpc = "idle"
    /\ placed = <<>>
    /\ task_attachments = <<>>
    /\ backup_dir = FALSE
    /\ backup_folders = FALSE
    /\ taskIdx = 1
    /\ attachment_refs = <<>>
    /\ task_attachment_refs = <<>>
    /\ attFiles = <<>>
    /\ attWritten = {}
    /\ apc = "idle"
    /\ renderTasks \in RenderTaskLists
    /\ renderProjectId \in RenderTaskIds \cup {"P0"}
    /\ renderStatus \in {STR_ACTIVE, STR_DROPPED}
    /\ renderContent = <<>>
    /\ renderInput = <<>>
    /\ renderCalls = 0
    /\ project_metadata = <<>>
    /\ exportAttachments = <<>>
    /\ exportRefs = <<>>
    /\ outDirs = {}
    /\ outFiles = <<>>
    /\ run = 0
    /\ epc = "idle"
    /\ walkStack = <<>>
    /\ written = {}
    /\ moved = {}
    /\ lastVisit = <<>>

SpecRender == RenderInit /\ [][RenderNext]_vars

\* The first export run starts: the database is read, the output directory
\* is empty
Init ==
    /\ folders = <<>>
    /\ folder_paths = <<>>
    /\ callStack = <<>>
    /\ ret = <<>>
    /\ todo = <<>>
    /\ fpc = "idle"
    /\ placed = <<>>
    /\ task_attachments = <<>>
    /\ backup_dir = FALSE
    /\ backup_folders = FALSE
    /\ taskIdx = 1
    /\ attachment_refs = <<>>
    /\ task_attachment_refs = <<>>
    /\ attFiles = <<>>
    /\ attWritten = {}
    /\ apc = "idle"
    /\ renderTasks = <<>>
    /\ renderProjectId = None
    /\ renderStatus = <<>>
    /\ renderContent = <<>>
    /\ renderInput = <<>>
    /\ renderCalls = 0
    /\ project_metadata \in [ExportProjectIds -> [project_status : ExportStatuses,
                                                   folder_id : ExportFolderIds \cup {None}]]
    /\ exportAttachments \in ExportAttachmentTables
    /\ exportRefs = <<>>
    /\ outDirs = {}
    /\ outFiles = <<>>
    /\ run = 1
    /\ epc = "attachments"
    /\ walkStack = <<>>
    /\ written = {}
    /\ moved = {}
    /\ lastVisit = <<>>

Spec == Init /\ [][ExportNext]_vars

\* The export runs of a database that may change between runs, from the same
\* start
SpecChanging == Init /\ [][ChangingNext]_vars

(***************************************************************************)
(* Claims about the folder resolver and the path derivation                *)
(***************************************************************************)

RECURSIVE IsAncestor(_, _, _)
\* Folder a is reached from folder f by following at most n parent links
IsAncestor(a, f, n) ==
    /\ n > 0
    /\ f \in FolderIds
    /\ \/ folders[f].parent = a
       \/ IsAncestor(a, folders[f].parent, n - 1)

\* No folder is its own ancestor
Acyclic == \A f \in FolderIds : ~IsAncestor(f, f, Cardinality(FolderIds))

\* C2: folder path resolution terminates for every folder collection, cyclic
\* ones included: get_folder_path never re-enters a folder whose resolution
\* is still in progress, the resolution never dies of unbounded recursion,
\* and fetch_folder_hierarchy returns a path for every folder.
C2_NoReentryAndTotal ==
    /\ \A i, j \in 1..Len(callStack) :
            i # j => callStack[i] # callStack[j]
    /\ fpc # "crashed"
    /\ fpc = "done" => DOMAIN folder_paths = FolderIds

RECURSIVE NameChain(_, _)
\* The names of folder f's ancestors in the collection and of f itself, root
\* first (n bounds the depth)
NameChain(f, n) ==
    IF n > 0 /\ folders[f].parent \in FolderIds
    THEN Append(NameChain(folders[f].parent, n - 1), folders[f].name)
    ELSE <<folders[f].name>>

\* The directory components of the placed file that come from its folder:
\* all components but the file name and, for a non-active project, the
\* status directory
PlacedFolderSegments ==
    LET segs == PathSegments(placed[1].full_path)
        n == Len(segs) - 1
                - (IF Lower(placed[1].project_status) # STR_ACTIVE THEN 1 ELSE 0)
    IN  SubSeq(segs, 1, n)

\* C5: each folder name is sanitized on its own before the path is
\* assembled: a project in a folder at depth n gets exactly n folder
\* segments, each the sanitized name of one folder of the chain.
C5_OneSegmentPerFolder ==
    (placed # <<>> /\ placed[1].folder_id \in FolderIds /\ Acyclic) =>
        LET chain == NameChain(placed[1].folder_id, Cardinality(FolderIds))
        IN  PlacedFolderSegments =
                [i \in 1..Len(chain) |-> sanitize_filename(chain[i])]

\* The status directory and file name the claim C3 describes, the status
\* directory followed by "/" when there is one
C3_StatusPart(project_name, S, hidden_status) ==
    LET base == IF project_name # <<>> THEN project_name ELSE STR_INBOX
    IN  IF Lower(S) = STR_ACTIVE
        THEN sanitize_filename(base)
        ELSE (IF Lower(S) = STR_INACTIVE
              THEN <<"(", "i", "n", "a", "c", "t", "i", "v", "e", ")">>
              ELSE <<".", "(">> \o hidden_status \o <<")">>)
             \o <<"/">>
             \o sanitize_filename(base \o <<" ", "(">> \o S \o <<")">>)

\* The folder path with each of its "/"-separated parts sanitized, followed
\* by "/" when it is not empty
C3_FolderPart(F) ==
    IF F # <<>> THEN SanitizedFolderPath(F) \o <<"/">> ELSE <<>>

\* C3 as stated: the file of a project with status S and folder path F is at
\* F, then the status segment, then the file name; the segment is absent for
\* "active", "(inactive)" for "inactive", and ".(" + lowercase S + ")" for
\* every other status.
C3_Original ==
    placed # <<>> =>
        placed[1].full_path =
            C3_FolderPart(placed[1].folder_path)
            \o C3_StatusPart(placed[1].project_name, placed[1].project_status,
                             Lower(placed[1].project_status))

\* C3 as amended: for every other status the segment is
\* ".(" + sanitize_filename(lowercase S) + ")".
C3_Amended ==
    placed # <<>> =>
        placed[1].full_path =
            C3_FolderPart(placed[1].folder_path)
            \o C3_StatusPart(placed[1].project_name, placed[1].project_status,
                             sanitize_filename(Lower(placed[1].project_status)))

\* A project without metadata (status "N/A") placed in a folder, and in the
\* model also one placed that is inactive
C3_Witness ==
    /\ placed # <<>>
    /\ placed[1].project_status = STR_NA
    /\ placed[1].folder_path # <<>>

(***************************************************************************)
(* Claims about the attachment resolver                                    *)
(***************************************************************************)

\* The outcome a reference records
RefOutcome(r) ==
    IF r.is_full_res /\ r.file_path # NoPath THEN "full-resolution"
    ELSE IF ~r.is_full_res /\ r.has_preview /\ r.file_path # NoPath
    THEN "preview-only"
    ELSE IF r.file_path = NoPath /\ ~r.has_preview /\ ~r.is_full_res
    THEN "unavailable"
    ELSE "malformed"

\* The outcome the precedence rule gives an attachment, from its own row and
\* the backup alone
RuleOutcome(a) ==
    IF backup_dir /\ backup_folders /\ a.dataIdentifier /\ a.archive = "ok"
    THEN "full-resolution"
    ELSE IF a.preview_data THEN "preview-only"
    ELSE "unavailable"

\* The references produced so far for task t
RefsSoFar(t) ==
    IF t \in DOMAIN task_attachment_refs THEN task_attachment_refs[t]
    ELSE IF apc = "run" /\ taskIdx <= Len(AttachTasks) /\ t = CurrentTask
    THEN attachment_refs
    ELSE <<>>

\* C6: every attachment gets exactly one of the three outcomes, in strict
\* precedence: full-resolution when a backup root is given and extraction
\* from the newest bundle succeeds, otherwise preview-only when a preview
\* blob exists, otherwise unavailable; the outcome depends on nothing but the
\* attachment's own row, and the run ends with a reference for every
\* attachment whatever the archives are.
C6_OutcomePrecedence ==
    /\ \A t \in DOMAIN task_attachments :
        /\ Len(RefsSoFar(t)) <= Len(task_attachments[t])
        /\ \A j \in 1..Len(RefsSoFar(t)) :
                RefOutcome(RefsSoFar(t)[j]) = RuleOutcome(task_attachments[t][j])
    /\ apc = "done" =>
        \A t \in DOMAIN task_attachments :
            Len(RefsSoFar(t)) = Len(task_attachments[t])

\* A finished run in which one attachment's archive was corrupt or missing
\* and the attachment fell back to its preview, while another attachment of
\* the run was extracted in full resolution
C6_Witness ==
    /\ apc = "done"
    /\ \E t, u \in DOMAIN task_attachments :
        \E j \in 1..Len(task_attachments[t]), k \in 1..Len(task_attachments[u]) :
            /\ task_attachments[t][j].archive \in {"corrupt", "truncated"}
            /\ RefOutcome(task_attachment_refs[t][j]) = "preview-only"
            /\ RefOutcome(task_attachment_refs[u][k]) = "full-resolution"

\* C7: whenever an attachment's result is unavailable (file path none), the
\* handling of that attachment has written no file at its destination path.
C7_UnavailableWroteNothing ==
    \A t \in DOMAIN task_attachments :
        \A j \in 1..Len(RefsSoFar(t)) :
            RefsSoFar(t)[j].file_path = NoPath =>
                \A w \in attWritten : w.by # <<t, j - 1>>

\* The file name a reference's file_path names under attachments/
C13_FileOf(r) ==
    SubSeq(r.file_path, Len(STR_ATTACHMENTS) + 2, Len(r.file_path))

\* C13: within one run, any two distinct attachments that both resolve to a
\* written file get distinct destination paths, and at the end of the run
\* the file each reference names holds the content of that reference's own
\* attachment; also for two attachments of one task whose names are equal
\* or sanitize to the same string.
C13_DistinctDestinations ==
    apc = "done" =>
        \A t \in DOMAIN task_attachment_refs :
            \A i \in 1..Len(task_attachment_refs[t]) :
                LET r == task_attachment_refs[t][i]
                IN  r.file_path # NoPath =>
                      /\ C13_FileOf(r) \in DOMAIN attFiles
                      /\ attFiles[C13_FileOf(r)].by = <<t, i - 1>>
                      /\ \A u \in DOMAIN task_attachment_refs :
                            \A j \in 1..Len(task_attachment_refs[u]) :
                                (<<u, j>> # <<t, i>>
                                 /\ task_attachment_refs[u][j].file_path # NoPath)
                                    => task_attachment_refs[u][j].file_path
                                            # r.file_path

(***************************************************************************)
(* Claims about the renderer                                               *)
(***************************************************************************)

\* The tasks of the list the renderer was called on other than the project's
\* own task, in input order
C10_Others ==
    SelectSeq(renderInput[1], LAMBDA t : t.task_identifier # renderProjectId)

\* C10: the task whose identifier equals the project identifier is rendered
\* as a level-1 heading without a checkbox, and every other task of the
\* group exactly once as a checkbox list item, in input order; when no
\* task's identifier equals the project identifier there is no heading and
\* every task is a list item.
C10_TitleAndItems ==
    renderContent # <<>> =>
        LET input == renderInput[1]
            out == renderContent[1]
            titled == \E i \in 1..Len(input) :
                            input[i].task_identifier = renderProjectId
            items == IF titled THEN Tail(out) ELSE out
        IN  /\ titled =>
                /\ Len(out) >= 1
                /\ out[1].kind = "heading"
                /\ out[1].task = renderProjectId
                /\ "checkbox" \notin DOMAIN out[1]
            /\ Len(items) = Len(C10_Others)
            /\ \A i \in 1..Len(items) :
                /\ items[i].kind = "item"
                /\ items[i].task = C10_Others[i].task_identifier
                /\ items[i].checkbox \in {"- [x]", "- [c]", "- [ ]"}

\* The first rendering of a group of three tasks whose title task is not
\* the first of the list
C10_Witness ==
    /\ renderCalls = 1
    /\ Len(renderInput[1]) = 3
    /\ renderInput[1][2].task_identifier = renderProjectId
    /\ Len(renderContent[1]) = 3
    /\ renderContent[1][1].kind = "heading"

\* C11: rendering is deterministic and leaves its input untouched: a call of
\* generate_md_content_with_title leaves the task list it was given as it
\* was, and the call that follows it with the same list, project
\* identifier, tags, status and attachment references returns the same
\* markdown as the first, also when the list holds the title task.
C11_RenderTwiceSame ==
    [][ /\ renderCalls' = renderCalls + 1 => renderTasks' = renderTasks
        /\ (renderCalls = 1 /\ renderCalls' = 2) =>
                renderContent' = renderContent ]_vars

(***************************************************************************)
(* Claims about the export runs and the empty-folder post-pass             *)
(***************************************************************************)

\* C1: a second run of the full export on the unchanged database and the
\* output tree the first run left performs no write: no markdown file is
\* created or rewritten by create_md_files and none is moved by the
\* post-pass.
C1_SecondRunWritesNothing ==
    run >= 2 => (written = {} /\ moved = {})

\* A subdirectory name that starts with neither "." nor "("
IsRegularDirName(d) == ~StartsWith(d, ".") /\ ~StartsWith(d, "(")

\* C8: the post-pass never relocates a directory that, at the moment it is
\* relocated, directly contains a regular file or a subdirectory whose name
\* starts with neither "." nor "(".
C8_RelocatedHoldsNothingLive ==
    (lastVisit # <<>> /\ lastVisit[1].target_status # <<>>) =>
        /\ lastVisit[1].actualFiles = {}
        /\ \A d \in lastVisit[1].actualDirs : ~IsRegularDirName(d)

\* A relocation of the second run that merges a directory holding a
\* markdown file into the directory an earlier relocation left
C8_Witness ==
    /\ lastVisit # <<>>
    /\ lastVisit[1].target_status # <<>>
    /\ lastVisit[1].merged
    /\ run = 2
    /\ moved # {}

\* C9: every directory below the output directory, outside of dot-prefixed
\* directories, that once its children have been processed contains no
\* regular file and no subdirectory other than dot- or paren-prefixed ones
\* is relocated: to ".(dropped)" if it has a subdirectory whose name
\* contains ".(dropped)", else to ".(done)" if it has a dot-prefixed
\* subdirectory or no subdirectory at all; with only paren-prefixed
\* subdirectories it is not moved.
C9_EmptiedDirectoryRelocated ==
    (/\ lastVisit # <<>>
     /\ ~lastVisit[1].skipped
     /\ lastVisit[1].actualFiles = {}
     /\ \A d \in lastVisit[1].actualDirs : ~IsRegularDirName(d)) =>
        lastVisit[1].target_status =
            IF \E d \in lastVisit[1].actualDirs :
                    Contains(<<".", "(">> \o STR_DROPPED \o <<")">>, d)
            THEN <<STR_DROPPED>>
            ELSE IF \/ \E d \in lastVisit[1].actualDirs : StartsWith(d, ".")
                    \/ lastVisit[1].actualDirs = {}
            THEN <<STR_DONE>>
            ELSE <<>>

\* The markdown files of the output tree that hold a line of the task
C12_FilesOfTask(t) ==
    { p \in DOMAIN outFiles :
        /\ IsMarkdown(p)
        /\ \E i \in 1..Len(outFiles[p]) :
              \E j \in 1..Len(outFiles[p][i].body) :
                  outFiles[p][i].body[j].task = t }

\* C12: after any sequence of complete export runs into the same output
\* directory, the database possibly changing between runs, every task of
\* the latest snapshot appears in exactly one markdown file of the output
\* tree, and every markdown file of the tree holds what the latest snapshot
\* generates for one of its files.
C12_OneFilePerTask ==
    epc = "finished" =>
        /\ \A i \in 1..Len(ExportTasks) :
              Cardinality(C12_FilesOfTask(ExportTasks[i].task_identifier)) = 1
        /\ \A p \in DOMAIN outFiles :
              IsMarkdown(p) =>
                \E f \in TargetFiles(project_metadata) :
                    outFiles[p] = CombinedContent(project_metadata, exportRefs, f)

====
